---------------------------- MODULE Spec2Model ----------------------------
(***************************************************************************)
(* eos::String (contracts/eoslib/string.hpp): a byte-buffer string that    *)
(* either borrows caller memory or owns a malloc'ed buffer shared through  *)
(* a manually managed reference counter.                                   *)
(*                                                                         *)
(* The model keeps the heap (data blocks and counter cells handed out by   *)
(* malloc), one caller-owned buffer, and a fixed number of storage slots   *)
(* in which String objects are constructed and destroyed.  uint32_t is     *)
(* scaled down to SizeBits bits; every size and counter is computed        *)
(* modulo Word.                                                            *)
(***************************************************************************)
EXTENDS Integers, Sequences, FiniteSets, TLC

\* ------------------------------------------------------------------ bounds
SizeBits == 3          \* width of the scaled uint32_t
NumStr   == 3          \* storage slots for String objects
MaxAlloc == 2          \* data-block allocations performed by the type
ExtLen   == 2          \* length of the caller-owned buffer
MaxSteps == 3          \* operations executed in one run

Word  == 2 ^ SizeBits
Slots == 1 .. NumStr

\* byte values the caller writes: the terminator and a letter
Byte == {0, 97}
\* an indeterminate byte: uninitialised, freed or out-of-range memory
U == -1

\* ------------------------------------------------------------------ state
VARIABLES
  strs,     \* slot -> the String object stored there (fields of the class)
  blocks,   \* data blocks returned by malloc, in allocation order
  cells,    \* uint32_t counter cells returned by malloc, in allocation order
  ext,      \* bytes of the caller-owned buffer
  last,     \* the operation executed last, its arguments and its outcome
  steps     \* number of operations executed so far

vars == <<strs, blocks, cells, ext, last, steps>>

\* ---------------------------------------------------------------- pointers
NULL        == [k |-> "null", b |-> 0, o |-> 0]
ExtPtr(o)   == [k |-> "ext",  b |-> 0, o |-> o]
HeapPtr(b)  == [k |-> "heap", b |-> b, o |-> 0]
PtrAdd(p, n) == [p EXCEPT !.o = p.o + n]

\* The members of class String; `live` tells whether an object currently
\* exists in the slot.
Fields(sz, d, own, rc) ==
  [live |-> TRUE, size |-> sz, data |-> d, own_memory |-> own, refcount |-> rc]
Dead ==
  [live |-> FALSE, size |-> 0, data |-> NULL, own_memory |-> FALSE, refcount |-> 0]

\* The heap as a value: h.blocks / h.cells
Heap == [blocks |-> blocks, cells |-> cells]

\* ------------------------------------------------------------ memory reads
\* *(p): a byte of the caller buffer or of a live block; anything else
\* (freed block, out of range, null) is indeterminate.
ReadByte(h, e, p) ==
  CASE p.k = "ext"  -> IF p.o < Len(e) THEN e[p.o + 1] ELSE U
    [] p.k = "heap" -> IF /\ h.blocks[p.b].st = "live"
                          /\ p.o < Len(h.blocks[p.b].bytes)
                       THEN h.blocks[p.b].bytes[p.o + 1]
                       ELSE U
    [] OTHER        -> U

\* the n bytes memcpy reads starting at p
ReadBytes(h, e, p, n) == [i \in 1 .. n |-> ReadByte(h, e, PtrAdd(p, i - 1))]

\* ------------------------------------------------------------------ malloc
\* malloc(n) followed by storing `bytes`; returns the grown heap
MallocData(h, bytes) ==
  [h EXCEPT !.blocks = Append(@, [st |-> "live", bytes |-> bytes])]
\* malloc(sizeof(uint32_t)) followed by *refcount = 1
MallocCount(h) == [h EXCEPT !.cells = Append(@, 1)]

\* free(p): free(nullptr) does nothing; freeing a freed block is a double free
free(h, p) ==
  IF p.k = "heap"
  THEN [h EXCEPT !.blocks[p.b] =
          [st    |-> IF @.st = "live" THEN "freed" ELSE "dfreed",
           bytes |-> <<>>]]
  ELSE h

\* release_data_if_needed() without the own_memory test: an object that
\* holds no counter frees what it points at
release_unchecked(h, f) ==
  IF f.refcount # 0
  THEN LET c  == (h.cells[f.refcount] - 1) % Word
           h1 == [h EXCEPT !.cells[f.refcount] = c]
       IN  IF c = 0 THEN free(h1, f.data) ELSE h1
  ELSE free(h, f.data)

\* ---------------------------------------------- release_data_if_needed()
release_data_if_needed(h, f) ==
  IF f.own_memory /\ f.refcount # 0
  THEN LET c  == (h.cells[f.refcount] - 1) % Word
           h1 == [h EXCEPT !.cells[f.refcount] = c]
       IN  IF c = 0 THEN free(h1, f.data) ELSE h1
  ELSE h

\* assign() whose memcpy copies one byte too few
assign_body_short(h, e, d, s, copy) ==
  IF copy
  THEN LET got == IF s > 0 THEN ReadBytes(h, e, d, s - 1) \o <<U>> ELSE <<>>
           h1  == MallocData(h, got)
           h2  == MallocCount(h1)
       IN  <<h2, Fields(s, HeapPtr(Len(h1.blocks)), TRUE, Len(h2.cells))>>
  ELSE <<h, Fields(s, d, FALSE, 0)>>

\* --------------------------------------------------------------- assign()
\* the body of assign() after the release: returns <<heap, fields>>
assign_body(h, e, d, s, copy) ==
  IF copy
  THEN LET h1 == MallocData(h, ReadBytes(h, e, d, s))
           h2 == MallocCount(h1)
       IN  <<h2, Fields(s, HeapPtr(Len(h1.blocks)), TRUE, Len(h2.cells))>>
  ELSE <<h, Fields(s, d, FALSE, 0)>>

\* String& assign(char* d, uint32_t s, bool copy) on the object with fields f
assign(h, e, f, d, s, copy) ==
  assign_body(release_data_if_needed(h, f), e, d, s, copy)

\* What the members of a String hold before its constructor has written
\* them: String(char*, uint32_t, bool) calls assign(), which reads
\* own_memory, refcount and data before any of them is initialised.  With
\* own_memory false or refcount null the release does nothing (one
\* representative); otherwise refcount and data may hold any address the
\* heap has handed out.
Garbage(h) ==
  {Fields(0, NULL, FALSE, 0)} \cup
  { Fields(0, d, TRUE, rc) :
      d  \in {NULL} \cup { HeapPtr(b) : b \in 1 .. Len(h.blocks) },
      rc \in 1 .. Len(h.cells) }

\* ------------------------------------------------------------- bookkeeping
\* a completed operation: its name, the object it was called on or built
\* (a), its String operand (b, 0 when it has none) and whether a owned its
\* memory when the operation began
Op(name, a, b) ==
  [op |-> name, a |-> a, b |-> b, err |-> "none",
   own |-> IF a \in Slots THEN strs[a].own_memory ELSE FALSE]
\* a failed assertion in operation `name` called on object a with operand b
Failed(name, a, b, err) ==
  [op |-> name, a |-> a, b |-> b, err |-> err,
   own |-> IF a \in Slots THEN strs[a].own_memory ELSE FALSE]

\* a new object is built in the first free slot
FirstFree(i) == /\ ~strs[i].live
                /\ \A k \in 1 .. i - 1 : strs[k].live

\* an assertion has failed: execution has stopped
Halted == last.err # "none"

\* the program may execute another operation
Running == ~Halted /\ steps < MaxSteps

CanAlloc(h) == Len(h.blocks) < MaxAlloc

Commit(h, s, l) ==
  /\ blocks' = h.blocks
  /\ cells'  = h.cells
  /\ strs'   = s
  /\ last'   = l
  /\ steps'  = steps + 1
  /\ UNCHANGED ext

\* ------------------------------------------------------------------- Init
Init ==
  /\ strs   = [i \in Slots |-> Dead]
  /\ blocks = <<>>
  /\ cells  = <<>>
  /\ ext    = [k \in 1 .. ExtLen |-> IF k = ExtLen THEN 0 ELSE 97]
  /\ last   = [op |-> "init", a |-> 0, b |-> 0, err |-> "none", own |-> FALSE]
  /\ steps  = 0

\* ---------------------------------------------------------------- actions
\* String()
Default(i) ==
  /\ Running /\ FirstFree(i)
  /\ Commit(Heap, [strs EXCEPT ![i] = Fields(0, NULL, FALSE, 0)],
            Op("default", i, 0))

\* String(uint32_t s): the bytes are whatever malloc returns
Reserve(i, s) ==
  /\ Running /\ FirstFree(i) /\ CanAlloc(Heap)
  /\ LET h1 == MallocData(Heap, [k \in 1 .. s |-> U])
         h2 == MallocCount(h1)
     IN  Commit(h2,
                [strs EXCEPT ![i] =
                   Fields(s, HeapPtr(Len(h1.blocks)), TRUE, Len(h2.cells))],
                Op("reserve", i, 0))

\* String(char* d, uint32_t s, bool copy): assign() on members that were
\* never initialised, so the release at its head acts on garbage g.
\* Returns <<heap, fields>>.
construct_from(h, e, g, d, s, copy) == assign(h, e, g, d, s, copy)

\* String(ext + o, s, copy): the caller passes s readable bytes of its buffer
ConstructFrom(i, o, s, copy) ==
  /\ Running /\ FirstFree(i)
  /\ copy => CanAlloc(Heap)
  /\ \E g \in Garbage(Heap) :
       LET r == construct_from(Heap, ext, g, ExtPtr(o), s, copy)
       IN  Commit(r[1], [strs EXCEPT ![i] = r[2]],
                  Op("construct", i, 0))

\* s.assign(ext + o, s, copy) on an existing object
Assign(i, o, s, copy) ==
  /\ Running /\ strs[i].live
  /\ copy => CanAlloc(Heap)
  /\ LET r == assign(Heap, ext, strs[i], ExtPtr(o), s, copy)
     IN  Commit(r[1], [strs EXCEPT ![i] = r[2]],
                Op("assign", i, 0))

\* a copy constructor that forgets to count the new reference
copy_construct_uncounted(h, obj) ==
  <<h, Fields(obj.size, obj.data, obj.own_memory, obj.refcount)>>

\* String(const String& obj): alias obj, count the new reference
copy_construct(h, obj) ==
  <<IF obj.refcount # 0
    THEN [h EXCEPT !.cells[obj.refcount] = (@ + 1) % Word]
    ELSE h,
    Fields(obj.size, obj.data, obj.own_memory, obj.refcount)>>

CopyConstruct(i, j) ==
  /\ Running /\ FirstFree(i) /\ strs[j].live
  /\ LET r == copy_construct(Heap, strs[j])
     IN  Commit(r[1], [strs EXCEPT ![i] = r[2]],
                Op("copy", i, j))

\* String& operator=(const String& obj); same says this == &obj
copy_assign(h, f, obj, same) ==
  IF same THEN <<h, f>>
  ELSE copy_construct(release_data_if_needed(h, f), obj)

CopyAssign(i, j) ==
  /\ Running /\ strs[i].live /\ strs[j].live
  /\ LET r == copy_assign(Heap, strs[i], strs[j], i = j)
     IN  Commit(r[1], [strs EXCEPT ![i] = r[2]],
                Op("=", i, j))

\* ~String()
Destroy(i) ==
  /\ Running /\ strs[i].live
  /\ Commit(release_data_if_needed(Heap, strs[i]), [strs EXCEPT ![i] = Dead],
            Op("destroy", i, 0))

\* the caller writes a byte of its own buffer
MutateSource(k, b) ==
  /\ Running /\ ext[k] # b
  /\ ext' = [ext EXCEPT ![k] = b]
  /\ last' = Op("mutate", 0, 0)
  /\ steps' = steps + 1
  /\ UNCHANGED <<strs, blocks, cells>>

\* ---------------------------------------------------------- operator +=
\* the overflow test computed in a type wider than the size type
overflow_ok_wide(size, str_size) ==
  /\ size + str_size > size
  /\ size + str_size > str_size

\* assert((size + str.size > size) && (size + str.size > str.size))
overflow_ok(size, str_size) ==
  /\ (size + str_size) % Word > size
  /\ (size + str_size) % Word > str_size

\* a terminator test that never finds a terminator
NeverTerminated(h, e, f) == {FALSE}

\* size > 0 && *(data + size - 1) == '\0': the outcomes of the test; an
\* indeterminate last byte lets it go either way
NullTerminated(h, e, f) ==
  IF f.size > 0
  THEN LET c == ReadByte(h, e, PtrAdd(f.data, f.size - 1))
       IN  IF c = U THEN BOOLEAN ELSE {c = 0}
  ELSE {FALSE}

\* a += that releases the old reference before it copies the operands
plus_assign_release_first(h, e, f, str, z) ==
  LET keep     == IF z THEN f.size - 1 ELSE f.size
      new_size == (keep + str.size) % Word
      h0 == release_data_if_needed(h, f)
      new_data == ReadBytes(h0, e, f.data, keep)
                    \o ReadBytes(h0, e, str.data, str.size)
      h1 == MallocData(h0, new_data)
      h3 == MallocCount(h1)
  IN  <<h3, Fields(new_size, HeapPtr(Len(h1.blocks)), TRUE, Len(h3.cells))>>

\* the body of operator += after the assert, with z the outcome of the
\* terminator test: build the new buffer, release the old reference, adopt.
\* Returns <<heap, fields>>.
plus_assign(h, e, f, str, z) ==
  LET keep     == IF z THEN f.size - 1 ELSE f.size
      new_size == (keep + str.size) % Word
      new_data == ReadBytes(h, e, f.data, keep)
                    \o ReadBytes(h, e, str.data, str.size)
      h1 == MallocData(h, new_data)
      h2 == release_data_if_needed(h1, f)
      h3 == MallocCount(h2)
  IN  <<h3, Fields(new_size, HeapPtr(Len(h1.blocks)), TRUE, Len(h3.cells))>>

\* an operator += that asserts only after the concatenation is done
plus_assign_checked_late(h, e, f, str, z) ==
  LET r == plus_assign(h, e, f, str, z)
  IN  IF overflow_ok(f.size, str.size)
      THEN <<r[1], r[2], "none">>
      ELSE <<r[1], f, "overflow">>

\* String& operator += (const String& str): the assert, then the body.
\* Returns <<heap, fields, outcome of the assert>>.
plus_assign_checked(h, e, f, str, z) ==
  IF overflow_ok(f.size, str.size)
  THEN LET r == plus_assign(h, e, f, str, z)
       IN  <<r[1], r[2], "none">>
  ELSE <<h, f, "overflow">>

\* a += b
Concat(i, j) ==
  /\ Running /\ strs[i].live /\ strs[j].live
  /\ overflow_ok(strs[i].size, strs[j].size) => CanAlloc(Heap)
  /\ \E z \in NullTerminated(Heap, ext, strs[i]) :
       LET r == plus_assign_checked(Heap, ext, strs[i], strs[j], z)
       IN  Commit(r[1], [strs EXCEPT ![i] = r[2]],
                  IF r[3] = "none" THEN Op("+=", i, j)
                  ELSE Failed("+=", i, j, r[3]))

\* --------------------------------------------------------------- substr()
\* assert((offset < size) && (offset + substr_size < size))
substr_ok(size, offset, substr_size) ==
  /\ offset < size
  /\ (offset + substr_size) % Word < size

\* r = a.substr(offset, substr_size, copy): the result is built by
\* String(data + offset, substr_size, copy)
Substr(r, i, offset, substr_size, copy) ==
  /\ Running /\ strs[i].live /\ FirstFree(r)
  /\ IF substr_ok(strs[i].size, offset, substr_size)
     THEN /\ copy => CanAlloc(Heap)
          /\ strs[i].data.o + offset < Word
          /\ \E g \in Garbage(Heap) :
               LET c == construct_from(Heap, ext, g,
                                       PtrAdd(strs[i].data, offset),
                                       substr_size, copy)
               IN  Commit(c[1], [strs EXCEPT ![r] = c[2]],
                          Op("substr", r, i))
     ELSE Commit(Heap, strs,
                 Failed("substr", i, 0, "out of bound"))

\* ----------------------------------------------------------- operator +
\* r = a + b: lhs is a copy of a, `lhs += rhs` runs on the copy, the result
\* is copy-constructed from it and the copy is destroyed.
\* Returns <<heap, fields of r>>.
plus(h, e, a, b, z) ==
  LET lhs == copy_construct(h, a)
      cat == plus_assign(lhs[1], e, lhs[2], b, z)
      res == copy_construct(cat[1], cat[2])
  IN  <<release_data_if_needed(res[1], cat[2]), res[2]>>

Plus(r, i, j) ==
  /\ Running /\ strs[i].live /\ strs[j].live /\ FirstFree(r)
  /\ IF overflow_ok(strs[i].size, strs[j].size)
     THEN /\ CanAlloc(Heap)
          /\ \E z \in NullTerminated(Heap, ext, strs[i]) :
               LET c == plus(Heap, ext, strs[i], strs[j], z)
               IN  Commit(c[1], [strs EXCEPT ![r] = c[2]],
                          Op("+", r, i))
     ELSE \* the assert fails inside += while the parameter copy is alive
          Commit(copy_construct(Heap, strs[i])[1], strs,
                 Failed("+", i, j, "overflow"))

\* ------------------------------------------------ operations that only read
\* a completed operation that returned v
Returned(name, a, b, v) ==
  [op |-> name, a |-> a, b |-> b, err |-> "none",
   own |-> strs[a].own_memory, ret |-> v]

\* a strlen that always counts the last byte
strlen_raw(f, z) == f.size

\* uint32_t strlen(), with z the outcome of the terminator test
strlen(f, z) == IF z THEN f.size - 1 ELSE f.size

Strlen(i) ==
  /\ Running /\ strs[i].live
  /\ \E z \in NullTerminated(Heap, ext, strs[i]) :
       Commit(Heap, strs, Returned("strlen", i, 0, strlen(strs[i], z)))

\* a test that takes every byte from 0x80 up for a continuation byte
CountsAsCharAscii(byte) == ~(byte >= 128)

\* !(byte >= 0x80 && byte <= 0xBF) on byte = (uint8_t)(*iterator)
CountsAsChar(byte) == ~(byte >= 128 /\ byte <= 191)

\* the while loop of strlenUTF8 with the iterator at data + k and end at
\* data + stop; returns what is added to len
RECURSIVE utf8_loop(_, _, _, _, _)
utf8_loop(h, e, f, k, stop) ==
  IF k = stop THEN 0
  ELSE (IF CountsAsChar(ReadByte(h, e, PtrAdd(f.data, k))) THEN 1 ELSE 0)
         + utf8_loop(h, e, f, k + 1, stop)

\* uint32_t strlenUTF8(), with z the outcome of the terminator test
strlenUTF8(h, e, f, z) ==
  utf8_loop(h, e, f, 0, IF z THEN f.size - 1 ELSE f.size)

StrlenUTF8(i) ==
  /\ Running /\ strs[i].live
  /\ \E z \in NullTerminated(Heap, ext, strs[i]) :
       Commit(Heap, strs,
              Returned("strlenUTF8", i, 0, strlenUTF8(Heap, ext, strs[i], z)))

\* char operator [] (index): assert(index < size), then *(data + index)
At(i, index) ==
  /\ Running /\ strs[i].live
  /\ IF index < strs[i].size
     THEN Commit(Heap, strs,
                 Returned("[]", i, 0,
                          ReadByte(Heap, ext, PtrAdd(strs[i].data, index))))
     ELSE Commit(Heap, strs,
                 Failed("[]", i, 0, "index out of bound"))

\* the value of a stored byte as a plain `char`, the type compare() reads
\* through: on the contract target (clang, wasm32) plain char is signed
CharVal(byte) == IF byte >= 128 THEN byte - 256 ELSE byte

\* the while loop of compare() with both iterators k bytes past their start
RECURSIVE compare_loop(_, _, _, _, _)
compare_loop(h, e, f, str, k) ==
  IF k = f.size /\ k = str.size THEN 0
  ELSE IF k = f.size THEN -1
  ELSE IF k = str.size THEN 1
  ELSE LET c1 == CharVal(ReadByte(h, e, PtrAdd(f.data, k)))
           c2 == CharVal(ReadByte(h, e, PtrAdd(str.data, k)))
       IN  IF c1 > c2 THEN 1
           ELSE IF c1 < c2 THEN -1
           ELSE compare_loop(h, e, f, str, k + 1)

\* int32_t compare(const String& str) const
compare(h, e, f, str) == compare_loop(h, e, f, str, 0)

Compare(i, j) ==
  /\ Running /\ strs[i].live /\ strs[j].live
  /\ Commit(Heap, strs,
            Returned("compare", i, j, compare(Heap, ext, strs[i], strs[j])))

\* operator <, operator >, operator ==, operator !=
less(h, e, lhs, rhs)      == compare(h, e, lhs, rhs) < 0
greater(h, e, lhs, rhs)   == compare(h, e, lhs, rhs) > 0
equal(h, e, lhs, rhs)     == compare(h, e, lhs, rhs) = 0
not_equal(h, e, lhs, rhs) == compare(h, e, lhs, rhs) # 0

\* the four relational operators evaluated on the same pair
Relate(i, j) ==
  /\ Running /\ strs[i].live /\ strs[j].live
  /\ Commit(Heap, strs,
            Returned("relate", i, j,
                     [lt |-> less(Heap, ext, strs[i], strs[j]),
                      gt |-> greater(Heap, ext, strs[i], strs[j]),
                      eq |-> equal(Heap, ext, strs[i], strs[j]),
                      ne |-> not_equal(Heap, ext, strs[i], strs[j])]))

\* ------------------------------------------------------------------ inputs
ReserveSizes == {0, 2, Word - 1}
SubstrOffs   == {0, 1}
SubstrSizes  == {1, Word - 1}
\* <<offset, count>> the caller passes: its whole buffer, the buffer
\* without its last byte, the last byte alone
ExtRanges    == { <<0, ExtLen>>, <<0, ExtLen - 1>>, <<ExtLen - 1, 1>> }
\* the indexes passed to operator []: the first byte and one past any size
AtIndexes    == {0, Word - 1}

Next ==
  \/ \E i \in Slots : Default(i)
  \/ \E i \in Slots, s \in ReserveSizes : Reserve(i, s)
  \/ \E i \in Slots, r \in ExtRanges, copy \in BOOLEAN :
       ConstructFrom(i, r[1], r[2], copy)
  \/ \E i \in Slots, r \in ExtRanges, copy \in BOOLEAN :
       Assign(i, r[1], r[2], copy)
  \/ \E i, j \in Slots : CopyConstruct(i, j)
  \/ \E i, j \in Slots : CopyAssign(i, j)
  \/ \E i \in Slots : Destroy(i)
  \/ \E i, j \in Slots : Concat(i, j)
  \/ \E r, i, j \in Slots : Plus(r, i, j)
  \/ \E r, i \in Slots, o \in SubstrOffs, s \in SubstrSizes, copy \in BOOLEAN :
       Substr(r, i, o, s, copy)
  \/ \E i \in Slots, x \in AtIndexes : At(i, x)
  \/ \E k \in 1 .. ExtLen, b \in Byte : MutateSource(k, b)

Spec == Init /\ [][Next]_vars

\* ------------------------------------------ the operations that only read
\* the bytes a text may hold: the terminator, an ASCII letter, a UTF-8
\* continuation byte (0xA9) and a UTF-8 lead byte (0xC3)
TextByte == {0, 97, 169, 195}

\* the bytes of the caller's buffer in ReadSpec, and where a view may start
TextLen    == ExtLen + 1
ViewStarts == {0, 1}

\* Two non-owning Strings a = String(buf, s1, false) and
\* b = String(buf + o2, s2, false) over a caller buffer of arbitrary bytes;
\* the views may overlap.
ReadInit ==
  /\ ext \in [1 .. TextLen -> TextByte]
  /\ \E s1 \in 0 .. TextLen, o2 \in ViewStarts :
       \E s2 \in 0 .. TextLen - o2 :
         strs = [i \in Slots |->
                   IF i = 1 THEN Fields(s1, ExtPtr(0), FALSE, 0)
                   ELSE IF i = 2 THEN Fields(s2, ExtPtr(o2), FALSE, 0)
                   ELSE Dead]
  /\ blocks = <<>>
  /\ cells  = <<>>
  /\ last   = [op |-> "init", a |-> 0, b |-> 0, err |-> "none", own |-> FALSE]
  /\ steps  = 0

ReadNext ==
  \/ \E i \in Slots : Strlen(i)
  \/ \E i \in Slots : StrlenUTF8(i)
  \/ \E i, j \in Slots : Compare(i, j)
  \/ \E i, j \in Slots : Relate(i, j)
  \/ \E k \in 1 .. TextLen, b \in Byte : MutateSource(k, b)

ReadSpec == ReadInit /\ [][ReadNext]_vars

\* ============================================================ properties
\* the live objects / the live objects that own their memory
Live   == { i \in Slots : strs[i].live }
Owning == { i \in Live : strs[i].own_memory }

\* the live owning objects that share counter cell c
OwnersOf(c) == { i \in Owning : strs[i].refcount = c }

\* the bytes read through the object with fields f
Bytes(h, e, f) == ReadBytes(h, e, f.data, f.size)

\* every byte of q is a determinate value
Determinate(q) == \A k \in 1 .. Len(q) : q[k] # U

\* the step does not touch any block or counter cell that already exists
HeapKept ==
  /\ \A b \in 1 .. Len(blocks) : blocks'[b] = blocks[b]
  /\ \A c \in 1 .. Len(cells)  : cells'[c] = cells[c]

\* the step is operation `name` on object a with String operand b
Did(name, a, b) ==
  steps' = steps + 1 /\ last'.op = name /\ last'.a = a /\ last'.b = b

\* the step allocates nothing
NoAlloc == Len(blocks') = Len(blocks) /\ Len(cells') = Len(cells)

\* C1: in every state reached by completed operations, the counter of every
\* live owning String equals the number of live owning Strings that share
\* it (so it is at least 1).
C1_CounterCountsAliases ==
  ~Halted =>
    \A i \in Owning :
      /\ strs[i].refcount \in 1 .. Len(cells)
      /\ cells[strs[i].refcount] = Cardinality(OwnersOf(strs[i].refcount))

\* C2: a data block is never freed while a live owning String aliases it,
\* is freed once its last owning alias is gone, and is never freed twice.
C2_FreedExactlyAtZero ==
  ~Halted =>
    /\ \A i \in Owning : blocks[strs[i].data.b].st = "live"
    /\ \A b \in 1 .. Len(blocks) :
         /\ blocks[b].st # "dfreed"
         /\ blocks[b].st = "live" =>
              \E i \in Owning : strs[i].data = HeapPtr(b)

\* The step of C3: destroying a non-owning String or calling assign() on
\* it frees nothing, changes no existing counter
\* and leaves the caller's bytes and every block's bytes unchanged;
\* operator= and += on it free nothing and decrement no counter.
C3_Step ==
  \A i \in Live :
    (~strs[i].own_memory /\ steps' = steps + 1 /\ last'.a = i) =>
      /\ last'.op \in {"destroy", "assign"} => (HeapKept /\ ext' = ext)
      /\ last'.op \in {"=", "+="} =>
           /\ ext' = ext
           /\ \A b \in 1 .. Len(blocks) : blocks'[b] = blocks[b]
           /\ \A c \in 1 .. Len(cells) :
                cells'[c] \in {cells[c], (cells[c] + 1) % Word}

\* C3: a live non-owning String always has a null refcount, and every
\* step that destroys or reassigns one satisfies C3_Step.
C3_NonOwningReleaseIsNoOp ==
  /\ [](\A i \in Live : ~strs[i].own_memory => strs[i].refcount = 0)
  /\ [][C3_Step]_vars

\* C3 witness: a non-owning String was destroyed, or was reassigned by
\* assign(), while the heap held a live block
C3_Witness ==
  /\ last.op \in {"destroy", "assign"} /\ ~last.own /\ last.err = "none"
  /\ \E b \in 1 .. Len(blocks) : blocks[b].st = "live"

\* The step of C4: String(d, s, true) and assign(d, s, true) leave the
\* object owning a fresh block with a fresh counter equal to 1 whose bytes are the s source
\* bytes at the time of the call; a later write to the source changes no
\* byte read through an owning String.
C4_FreshCopy(i, o, s) ==
  LET f == strs'[i] IN
  /\ f.live /\ f.own_memory /\ f.size = s
  /\ Len(blocks') = Len(blocks) + 1 /\ f.data = HeapPtr(Len(blocks'))
  /\ Len(cells') = Len(cells) + 1 /\ f.refcount = Len(cells')
  /\ cells'[f.refcount] = 1
  /\ blocks'[f.data.b] = [st |-> "live", bytes |-> SubSeq(ext, o + 1, o + s)]

C4_Step ==
  /\ \A i \in Slots, r \in ExtRanges :
       (\/ Did("construct", i, 0) /\ ConstructFrom(i, r[1], r[2], TRUE)
        \/ Did("assign", i, 0) /\ Assign(i, r[1], r[2], TRUE))
         => C4_FreshCopy(i, r[1], r[2])
  /\ (steps' = steps + 1 /\ last'.op = "mutate") =>
       \A i \in Owning :
         /\ strs'[i] = strs[i]
         /\ Bytes(Heap', ext', strs'[i]) = Bytes(Heap, ext, strs[i])

\* C4: every copying construction or assignment yields a fresh owning
\* block (counter 1) holding the source bytes of that moment, and no later
\* write to the source changes the bytes of an owning String.
C4_CopyIsIndependent == [][C4_Step]_vars

\* C4 witness: the caller has overwritten its buffer after a copying
\* construction of the whole buffer, and
\* the String still reads the bytes that were copied
C4_Witness ==
  /\ last.op = "mutate"
  /\ \E i \in Owning :
       /\ strs[i].size = ExtLen
       /\ blocks[strs[i].data.b].st = "live"
       /\ Determinate(Bytes(Heap, ext, strs[i]))
       /\ Bytes(Heap, ext, strs[i]) # ext

\* What C5 says of every copy: copy-construct and copy-assign from another
\* String allocate nothing, copy no byte, give the
\* target the source's four fields, leave the source's fields unchanged and
\* leave every surviving block as it was.
C5_Fields(i, j) ==
  /\ NoAlloc /\ ext' = ext
  /\ strs'[i] = strs[j]
  /\ strs'[j] = strs[j]
  /\ \A b \in 1 .. Len(blocks) :
       blocks'[b].st = "live" => blocks'[b] = blocks[b]

C5_Original_Step ==
  \A i, j \in Slots :
    (i # j /\ (Did("copy", i, j) \/ Did("=", i, j))) =>
      /\ C5_Fields(i, j)
      /\ strs[j].own_memory =>
           cells'[strs[j].refcount] = (cells[strs[j].refcount] + 1) % Word
      /\ ~strs[j].own_memory => cells' = cells

\* C5 as stated: every copy from another String satisfies C5_Fields and
\* raises the shared counter by one exactly when the source is owning.
C5_Original == [][C5_Original_Step]_vars

\* The step of C5 as amended: the counter is raised by one exactly
\* when the source is owning and the target did not already hold a
\* reference to the same counter; copy-assigning onto an alias of the same
\* allocation leaves the counter's value as it was.
C5_Amended_Step ==
  \A i, j \in Slots :
    (i # j /\ (Did("copy", i, j) \/ Did("=", i, j))) =>
      /\ C5_Fields(i, j)
      /\ strs[j].own_memory =>
           LET c == strs[j].refcount
               held == strs[i].live /\ strs[i].own_memory /\ strs[i].refcount = c
           IN  cells'[c] = IF held THEN cells[c] ELSE (cells[c] + 1) % Word
      /\ ~strs[j].own_memory =>
           \A c \in 1 .. Len(cells) :
             cells'[c] # cells[c] =>
               (strs[i].live /\ strs[i].own_memory /\ strs[i].refcount = c)

\* C5 amended: every copy from another String satisfies C5_Fields; the
\* counter ends one higher exactly when the source is owning and the target
\* did not already share that counter, and keeps its value when it did.
C5_CopyAliases == [][C5_Amended_Step]_vars

\* C5 witness: an owning String has just been copy-assigned onto a String
\* that already shared its counter (the only one there is), and the counter
\* still counts the two of them
C5_Witness ==
  /\ last.op = "=" /\ last.a # last.b
  /\ last.own /\ Len(cells) = 1
  /\ strs[last.a] = strs[last.b]
  /\ strs[last.b].own_memory
  /\ cells[strs[last.b].refcount] = 2

\* The step of C6: after a successful a += b, a owns a fresh block with a fresh counter
\* equal to 1; every other String that pointed into a's previous block
\* keeps its fields and still reads the same bytes, and the previous
\* counter is one lower.
C6_Step ==
  \A i, j \in Slots :
    (Did("+=", i, j) /\ last'.err = "none") =>
      /\ strs'[i].own_memory
      /\ strs'[i].data = HeapPtr(Len(blocks) + 1)
      /\ strs'[i].refcount = Len(cells) + 1
      /\ cells'[strs'[i].refcount] = 1
      /\ strs[i].own_memory =>
           /\ cells'[strs[i].refcount] = (cells[strs[i].refcount] - 1) % Word
           /\ \A k \in Live \ {i} :
                (strs[k].data.k = "heap" /\ strs[k].data.b = strs[i].data.b) =>
                  /\ strs'[k] = strs[k]
                  /\ blocks'[strs[k].data.b] = blocks[strs[k].data.b]

\* C6: every successful a += b leaves a owning a fresh buffer with counter
\* 1, lowers the previous counter by one and leaves every other String
\* that aliased the previous allocation with the same fields and bytes.
C6_ConcatLeavesAliases == [][C6_Step]_vars

\* The step of C7: when a += b succeeds on determinate bytes, the result is a's bytes
\* without one trailing zero byte (if a ended in one) followed by all of
\* b's bytes, and its size is a.size + b.size, minus one exactly when a
\* ended in a zero byte.
C7_Step ==
  \A i, j \in Slots :
    LET A    == Bytes(Heap, ext, strs[i])
        B    == Bytes(Heap, ext, strs[j])
        drop == Len(A) > 0 /\ A[Len(A)] = 0
        head == IF drop THEN SubSeq(A, 1, Len(A) - 1) ELSE A
    IN  (/\ Did("+=", i, j) /\ last'.err = "none"
         /\ Determinate(A) /\ Determinate(B)) =>
          /\ strs'[i].size = Len(A) + Len(B) - (IF drop THEN 1 ELSE 0)
          /\ Bytes(Heap', ext', strs'[i]) = head \o B

\* C7: every successful += yields a's bytes minus one trailing zero byte,
\* then all of b's bytes, with size a.size + b.size (- 1 if a ended in 0).
C7_ConcatBytes == [][C7_Step]_vars

\* C7 witness: a += b has dropped the terminator of a: the result of
\* appending the
\* caller's whole buffer to a copy of it
C7_Witness ==
  /\ last.op = "+=" /\ last.err = "none" /\ last.a # last.b
  /\ Determinate(ext) /\ ext[ExtLen] = 0
  /\ Bytes(Heap, ext, strs[last.b]) = ext
  /\ Bytes(Heap, ext, strs[last.a]) = SubSeq(ext, 1, ExtLen - 1) \o ext

\* The step of C8: whenever size + str.size is not representable in the
\* size type, += fails with the overflow assertion and changes nothing: no block or
\* counter is allocated and no String gets a wrapped length.
C8_Step ==
  \A i, j \in Slots :
    (Did("+=", i, j) /\ strs[i].size + strs[j].size >= Word) =>
      /\ last'.err = "overflow"
      /\ blocks' = blocks /\ cells' = cells /\ strs' = strs /\ ext' = ext

\* C8: every += whose length would wrap fails with the overflow assertion
\* and allocates and changes nothing.
C8_OverflowRejected == [][C8_Step]_vars

\* C8 witness: += has failed on two operands whose sizes do not fit
\* together
C8_Witness ==
  /\ last.op = "+=" /\ last.err = "overflow"
  /\ strs[last.a].size + strs[last.b].size >= Word

\* The step of C9: += succeeds whenever size + str.size is representable
\* in the size type, operands of size 0 included.
C9_Step ==
  \A i, j \in Slots :
    (Did("+=", i, j) /\ strs[i].size + strs[j].size < Word) =>
      last'.err = "none"

\* C9: += reports overflow only when the concatenation length would wrap.
C9_OverflowOnlyOnWrap == [][C9_Step]_vars

\* The step of C10: substr(offset, length, copy) fails with the
\* out-of-bound assertion whenever offset >= size or offset + length >= size, the sum taken
\* without wrapping.
C10_Step ==
  \A r, i \in Slots, o \in SubstrOffs, s \in SubstrSizes, copy \in BOOLEAN :
    (/\ steps' = steps + 1 /\ last'.op = "substr"
     /\ o >= strs[i].size \/ o + s >= strs[i].size
     /\ Substr(r, i, o, s, copy))
      => last'.err = "out of bound"

\* C10: for all offsets and lengths, wrapping sums included, substr fails
\* when offset >= size or offset + length >= size.
C10_SubstrBounds == [][C10_Step]_vars

\* The step of C11: what a successful r = a.substr(offset, length, copy)
\* leaves behind.
C11_Step ==
  \A r, i \in Slots, o \in SubstrOffs, s \in SubstrSizes, copy \in BOOLEAN :
    (/\ Did("substr", r, i) /\ last'.err = "none"
     /\ Substr(r, i, o, s, copy)) =>
      LET src == strs[i]
          res == strs'[r]
      IN  /\ res.live /\ res.size = s
          /\ o + s <= src.size
          /\ Bytes(Heap', ext', res) = SubSeq(Bytes(Heap, ext, src), o + 1, o + s)
          /\ strs'[i] = src
          /\ src.own_memory => cells'[src.refcount] = cells[src.refcount]
          /\ ~copy =>
               /\ ~res.own_memory
               /\ res.data = PtrAdd(src.data, o)
               /\ NoAlloc /\ HeapKept
          /\ copy =>
               /\ res.own_memory
               /\ Len(blocks') = Len(blocks) + 1
               /\ res.data = HeapPtr(Len(blocks'))
               /\ Len(cells') = Len(cells) + 1
               /\ res.refcount = Len(cells')
               /\ cells'[res.refcount] = 1

\* C11: a successful substr(offset, length, copy) returns a String of size
\* length holding the source's bytes offset .. offset + length - 1; without
\* copy it is a non-owning view at data + offset and nothing is allocated
\* and no counter changes; with copy it owns a fresh allocation with
\* counter 1; the source's fields and counter are unchanged.
C11_SubstrResult == [][C11_Step]_vars

\* the reference order of two byte strings: the first differing byte
\* decides, by its value as a byte; a strict prefix comes first
RefCompare(A, B) ==
  LET n      == IF Len(A) < Len(B) THEN Len(A) ELSE Len(B)
      differ == { k \in 1 .. n : A[k] # B[k] }
  IN  IF differ = {}
      THEN IF Len(A) = Len(B) THEN 0 ELSE IF Len(A) < Len(B) THEN -1 ELSE 1
      ELSE LET d == CHOOSE k \in differ : \A m \in differ : k <= m
           IN  IF A[d] < B[d] THEN -1 ELSE 1

\* The step of C12: compare() and the relational operators against the
\* reference order.
C12_Step ==
  \A i, j \in Slots :
    LET A == Bytes(Heap, ext, strs[i])
        B == Bytes(Heap, ext, strs[j])
    IN  /\ Did("compare", i, j) =>
             /\ last'.ret = RefCompare(A, B)
             /\ last'.ret = 0 <=> A = B
             /\ last'.ret = 0 - compare(Heap, ext, strs[j], strs[i])
        /\ Did("relate", i, j) =>
             /\ last'.ret.lt <=> RefCompare(A, B) = -1
             /\ last'.ret.eq <=> RefCompare(A, B) = 0
             /\ last'.ret.gt <=> RefCompare(A, B) = 1
             /\ Cardinality({ x \in {"lt", "eq", "gt"} : last'.ret[x] }) = 1

\* C12: a.compare(b) equals the reference lexicographic comparison over the
\* full size bytes of both Strings (0 iff equal, -1 for a strict prefix or a
\* smaller first differing byte, 1 otherwise), a.compare(b) = -b.compare(a),
\* and exactly one of a < b, a == b, a > b holds.
C12_CompareIsLexicographic == [][C12_Step]_vars

\* the length the claim of C13 assigns to the byte string B
RefLen(B) == IF Len(B) > 0 /\ B[Len(B)] = 0 THEN Len(B) - 1 ELSE Len(B)

\* the values strlen() can return for the object with fields f
StrlenOf(h, e, f) == { strlen(f, z) : z \in NullTerminated(h, e, f) }

\* The step of C13: a call of strlen() returns the reference length of the
\* bytes as they are at the call, and a write to the last byte of a
\* non-owning view changes what strlen() returns for it.
C13_Step ==
  /\ \A i \in Slots :
       (Did("strlen", i, 0) /\ Determinate(Bytes(Heap, ext, strs[i]))) =>
         last'.ret = RefLen(Bytes(Heap, ext, strs[i]))
  /\ (steps' = steps + 1 /\ last'.op = "mutate") =>
       \A i \in Live :
         LET f  == strs[i]
             B0 == Bytes(Heap, ext, f)
             B1 == Bytes(Heap', ext', strs'[i])
         IN  (~f.own_memory /\ f.size > 0 /\ Determinate(B0)) =>
               /\ strs'[i] = f
               /\ StrlenOf(Heap', ext', f) = {RefLen(B1)}
               /\ (B0[f.size] # 0 /\ B1[f.size] = 0) =>
                    /\ StrlenOf(Heap, ext, f) = {f.size}
                    /\ StrlenOf(Heap', ext', f) = {f.size - 1}
               /\ (B0[f.size] = 0 /\ B1[f.size] # 0) =>
                    /\ StrlenOf(Heap, ext, f) = {f.size - 1}
                    /\ StrlenOf(Heap', ext', f) = {f.size}

\* C13: strlen() returns size - 1 when size > 0 and the byte at size - 1 is
\* zero, and size otherwise (0 for an empty String); it reads the bytes as
\* they are at the call, so for a non-owning view it follows later writes
\* to the last byte.
C13_StrlenReadsCurrentBytes == [][C13_Step]_vars

\* C13 witness: strlen() of a non-owning view whose last byte is zero has
\* just returned size - 1, as a later operation of the run
C13_Witness ==
  /\ last.op = "strlen" /\ steps >= 2
  /\ ~strs[last.a].own_memory /\ strs[last.a].size > 0
  /\ last.ret = strs[last.a].size - 1

\* The step of C14: strlenUTF8() returns the number of bytes outside
\* [0x80, 0xBF] among the first strlen() bytes, which is at most strlen(),
\* and a String whose bytes are those of another followed by one
\* terminator gets the same result.
C14_Step ==
  \A i \in Slots :
    LET B == Bytes(Heap, ext, strs[i])
        n == RefLen(B)
    IN  Did("strlenUTF8", i, 0) =>
          /\ last'.ret = Cardinality({ k \in 1 .. n : B[k] \notin 128 .. 191 })
          /\ last'.ret <= n
          /\ StrlenOf(Heap, ext, strs[i]) = {n}
          /\ \A j \in Live :
               LET T == Bytes(Heap, ext, strs[j])
               IN  (RefLen(B) = Len(B) /\ T = B \o <<0>>) =>
                     \A z \in NullTerminated(Heap, ext, strs[j]) :
                       strlenUTF8(Heap, ext, strs[j], z) = last'.ret

\* C14: strlenUTF8() terminates and returns the number of bytes outside
\* [0x80, 0xBF] among the first strlen() bytes (one trailing zero excluded,
\* embedded zeros counted), so strlenUTF8() <= strlen(), and the result is
\* the same with or without a trailing zero terminator.
C14_Utf8Length == [][C14_Step]_vars

\* C14 witness: strlenUTF8() has returned 1 for the two bytes 0xC3 0xA9
\* while the other String holds the same bytes followed by a terminator
C14_Witness ==
  /\ last.op = "strlenUTF8"
  /\ Bytes(Heap, ext, strs[last.a]) = <<195, 169>>
  /\ last.ret = 1
  /\ \E j \in Live : Bytes(Heap, ext, strs[j]) = <<195, 169, 0>>

\* The step of C15: r = a + b leaves a and b as they were and yields an
\* owning r with counter 1 that holds the bytes a += b would produce.
C15_Step ==
  \A r, i, j \in Slots :
    (/\ Did("+", r, i) /\ last'.err = "none"
     /\ Plus(r, i, j)) =>
      LET a == strs[i]
          b == strs[j]
      IN  /\ strs'[i] = a /\ strs'[j] = b
          /\ Bytes(Heap', ext', a) = Bytes(Heap, ext, a)
          /\ Bytes(Heap', ext', b) = Bytes(Heap, ext, b)
          /\ a.own_memory => cells'[a.refcount] = cells[a.refcount]
          /\ b.own_memory => cells'[b.refcount] = cells[b.refcount]
          /\ \A n \in 1 .. Len(blocks) : blocks'[n] = blocks[n]
          /\ strs'[r].live /\ strs'[r].own_memory
          /\ strs'[r].refcount = Len(cells) + 1
          /\ cells'[strs'[r].refcount] = 1
          /\ \E z \in NullTerminated(Heap, ext, a) :
               LET c == plus_assign(Heap, ext, a, b, z)
               IN  /\ strs'[r].size = c[2].size
                   /\ Bytes(Heap', ext', strs'[r]) = Bytes(c[1], ext, c[2])

\* C15: operator + does not mutate its operands: after r = a + b, a and b
\* have the same data pointer, size, ownership flag and bytes, the counters
\* of their allocations have the values they had before, and r is an owning
\* String with counter 1 whose bytes are those a += b would have produced.
C15_PlusKeepsOperands == [][C15_Step]_vars

\* The step of C16: a += b in which b reads from a's own allocation (b is
\* a itself, an alias or a view into it) and the release inside += frees
\* that allocation. Every byte of the result is the byte the operands held
\* before the call.
C16_Step ==
  \A i, j \in Slots :
    LET a == strs[i]
        b == strs[j]
        A == Bytes(Heap, ext, a)
        B == Bytes(Heap, ext, b)
        R == Bytes(Heap', ext', strs'[i])
    IN  (/\ Did("+=", i, j) /\ last'.err = "none"
         /\ a.own_memory /\ a.data.k = "heap"
         /\ b.data.k = "heap" /\ b.data.b = a.data.b
         /\ blocks[a.data.b].st = "live"
         /\ blocks'[a.data.b].st # "live") =>
          /\ R = (IF Len(R) = Len(A) + Len(B) THEN A
                  ELSE SubSeq(A, 1, Len(A) - 1)) \o B
          /\ (Determinate(A) /\ Determinate(B)) => Determinate(R)

\* C16: in +=, the left operand's previous reference is released only after
\* the bytes of both operands have been copied, so for a += a, and for
\* a += b where b aliases a's allocation or is a view into it, no byte is
\* read from an allocation after it was freed, even when a held the last
\* reference.
C16_ReleaseAfterCopy == [][C16_Step]_vars

\* C16 witness: a, the only owner of a copy of the caller's buffer, has
\* been appended to itself; its old block is freed and the result holds
\* the buffer's bytes twice, less the first terminator
C16_Witness ==
  /\ last.op = "+=" /\ last.err = "none" /\ last.a = last.b /\ last.own
  /\ Determinate(ext) /\ ext[ExtLen] = 0
  /\ \E n \in 1 .. Len(blocks) : blocks[n].st = "freed"
  /\ Bytes(Heap, ext, strs[last.a]) = SubSeq(ext, 1, ExtLen - 1) \o ext

\* The step of C17: a step in which operator [], substr or += fails its
\* assertion changes no String, block, counter cell or caller byte, and
\* allocates nothing.
C17_Step ==
  (/\ steps' = steps + 1
   /\ last'.op \in {"[]", "substr", "+="}
   /\ last'.err # "none") =>
    /\ strs' = strs /\ blocks' = blocks /\ cells' = cells /\ ext' = ext
    /\ last'.a \in Live
    /\ last'.op = "[]" =>
         /\ last'.err = "index out of bound"
         /\ \E x \in AtIndexes : x >= strs[last'.a].size
    /\ last'.op = "substr" =>
         /\ last'.err = "out of bound"
         /\ \E o \in SubstrOffs, s \in SubstrSizes :
              ~substr_ok(strs[last'.a].size, o, s)
    /\ last'.op = "+=" =>
         /\ last'.err = "overflow"
         /\ ~overflow_ok(strs[last'.a].size, strs[last'.b].size)

\* C17: operator [] (index >= size), substr (out of bound) and += (overflow)
\* check before they act: when the assertion fails nothing has been
\* allocated, freed, counted or written, so the String, its allocation and
\* all aliases are exactly as before the call.
C17_FailsBeforeActing == [][C17_Step]_vars

\* C17 witness: operator [] has failed on an owning String whose block and
\* counter are still in place
C17_Witness ==
  /\ last.op = "[]" /\ last.err = "index out of bound"
  /\ strs[last.a].live /\ strs[last.a].own_memory
  /\ strs[last.a].data.k = "heap"
  /\ blocks[strs[last.a].data.b].st = "live"
  /\ cells[strs[last.a].refcount] = 1

\* The step of C18: building a String with String(char*, uint32_t, bool)
\* leaves every block and counter cell that existed before as it was.
C18_Step ==
  \A i \in Slots :
    Did("construct", i, 0) =>
      /\ HeapKept
      /\ \A k \in Live : strs'[k] = strs[k]

\* C18: constructing a String with the (pointer, size, copy) constructor
\* has no effect on any pre-existing allocation: it never decrements a
\* counter and never frees memory, whatever the new object's fields held
\* before the constructor ran.
C18_ConstructorTouchesNothing == [][C18_Step]_vars

\* the counter cells the type has handed back to the allocator: the only
\* free() in the class is free(data)
FreedCells == {}

\* C19: no memory is leaked: once every String has been destroyed, every
\* block the type allocated, data buffers and counter cells alike, has been
\* freed.
C19_NoLeak ==
  (~Halted /\ Live = {}) =>
    /\ \A n \in 1 .. Len(blocks) : blocks[n].st # "live"
    /\ \A c \in 1 .. Len(cells) : c \in FreedCells

\* C20: no live String points into a freed allocation; in particular a view
\* returned by substr(offset, length, false) stays valid after the owning
\* Strings of its allocation are destroyed or reassigned.
C20_NoDanglingData ==
  ~Halted =>
    \A i \in Live :
      strs[i].data.k = "heap" => blocks[strs[i].data.b].st = "live"
=============================================================================
